---------------------------- MODULE Spec2Model ----------------------------
(***************************************************************************)
(* Model of GoogleVisionHighlightSelector (src/src/lib/highlighter/        *)
(* highlighter.ts) and of the helpers it calls (photo-quality,             *)
(* photo-meta-similarity, colors, distance).                               *)
(*                                                                         *)
(* Numbers.  A JavaScript number in [0,1] is a fixed-point integer in      *)
(* thousandths (One = 1.0); every product and quotient is rounded toward   *)
(* minus infinity.  Times are integer milliseconds.  The two non-finite    *)
(* values the code can produce, NaN and -Infinity, are the sentinels NaN   *)
(* and NegInf.  Label descriptions and preferred types are sequences of    *)
(* character codes, so that toLowerCase, includes, sort and join are       *)
(* modelled by what they do.                                               *)
(***************************************************************************)
EXTENDS Integers, Sequences, FiniteSets, TLC

---------------------------------------------------------------------------
(* Arithmetic *)

One == 10 * 100

NaN == 2^30 + 1
NegInf == 0 - 2^30

IsFinite(x) == x # NaN /\ x # NegInf

Abs(x) == IF x < 0 THEN 0 - x ELSE x
Min2(a, b) == IF a < b THEN a ELSE b
Max2(a, b) == IF a > b THEN a ELSE b

\* a * b and a / b on fixed-point numbers
Mul(a, b) == (a * b) \div One
Div(a, b) == (a * One) \div b

\* IEEE addition and scaling by a finite non-negative weight, on the
\* sentinels: NaN absorbs everything, 0 * -Infinity is NaN.
FAdd(a, b) ==
    IF a = NaN \/ b = NaN THEN NaN
    ELSE IF a = NegInf \/ b = NegInf THEN NegInf
    ELSE a + b
FScale(w, x) ==
    IF x = NaN THEN NaN
    ELSE IF x = NegInf THEN (IF w = 0 THEN NaN ELSE NegInf)
    ELSE w * x

\* x || 0
OrZero(x) == IF x = NaN THEN 0 ELSE x

\* a >= b as JavaScript compares numbers: false when either side is NaN
FGeq(a, b) ==
    IF a = NaN \/ b = NaN THEN FALSE
    ELSE IF b = NegInf THEN TRUE
    ELSE IF a = NegInf THEN FALSE
    ELSE a >= b

RECURSIVE SqrtSearch(_, _, _)
SqrtSearch(n, lo, hi) ==
    IF lo >= hi THEN lo
    ELSE LET mid == (lo + hi + 1) \div 2
         IN  IF mid * mid <= n THEN SqrtSearch(n, mid, hi)
             ELSE SqrtSearch(n, lo, mid - 1)
\* floor(Math.sqrt(n)) for 0 <= n < 2^31
ISqrt(n) == SqrtSearch(n, 0, 46340)

RECURSIVE SumSeq(_)
SumSeq(s) == IF s = <<>> THEN 0 ELSE Head(s) + SumSeq(Tail(s))

RECURSIVE MaxSeq(_, _)
MaxSeq(s, init) == IF s = <<>> THEN init ELSE MaxSeq(Tail(s), Max2(init, Head(s)))

RECURSIVE MinSeq(_, _)
MinSeq(s, init) == IF s = <<>> THEN init ELSE MinSeq(Tail(s), Min2(init, Head(s)))

Range(s) == {s[i] : i \in DOMAIN s}

\* Array.prototype.slice(0, n) for an integer n >= 0
SliceTo(s, n) == SubSeq(s, 1, Min2(n, Len(s)))

---------------------------------------------------------------------------
(* Strings as sequences of character codes *)

LowerChar(c) == IF c >= 65 /\ c <= 90 THEN c + 32 ELSE c
toLowerCase(s) == [i \in DOMAIN s |-> LowerChar(s[i])]

\* String.prototype.includes
includes(s, sub) ==
    \E i \in 0..(Len(s) - Len(sub)) : SubSeq(s, i + 1, i + Len(sub)) = sub

\* a < b in the code-unit order Array.prototype.sort uses by default
RECURSIVE StrLess(_, _)
StrLess(a, b) ==
    IF b = <<>> THEN FALSE
    ELSE IF a = <<>> THEN TRUE
    ELSE IF Head(a) # Head(b) THEN Head(a) < Head(b)
    ELSE StrLess(Tail(a), Tail(b))

Bar == <<124>>

\* [a, b].join('|'), the two descriptions in the order of the label list
ComboKey_unsorted(a, b) == a \o Bar \o b

\* [a, b].sort().join('|')
ComboKey(a, b) == IF StrLess(b, a) THEN b \o Bar \o a ELSE a \o Bar \o b

---------------------------------------------------------------------------
(* vision-api: conversions of the annotation provider's values *)

\* likelihoodMap[likelihood || 'UNKNOWN'] || 0
convertLikelihood(likelihood) ==
    CASE likelihood = "VERY_LIKELY" -> One
      [] likelihood = "LIKELY" -> 750
      [] likelihood = "POSSIBLE" -> 500
      [] likelihood = "UNLIKELY" -> 250
      [] OTHER -> 0

\* Math.round of a fixed-point number, as an integer
Round(x) == (x + 500) \div One

---------------------------------------------------------------------------
(* photo-quality: the four quality metrics of one annotation response.     *)
(* A response r has faceAnnotations, labelAnnotations, landmarkAnnotations,*)
(* webEntities, visuallySimilarImages, partialMatchingImages, and the      *)
(* dominant colours: hasColors says whether                                *)
(* imagePropertiesAnnotation.dominantColors.colors is there, colors is the *)
(* list.  Box coordinates and pixel fractions are fixed-point.             *)

\* Math.sqrt((r1-r2)^2 + (g1-g2)^2 + (b1-b2)^2), in hundredths
RgbDistance(c1, c2) ==
    ISqrt(((c1.red - c2.red) * (c1.red - c2.red)
           + (c1.green - c2.green) * (c1.green - c2.green)
           + (c1.blue - c2.blue) * (c1.blue - c2.blue)) * 10000)

\* 255 * Math.sqrt(3) = 441.67, in hundredths
MaxRgbDistance == 44167

\* the distances between consecutive dominant colours
AdjacentDistances(colors) ==
    [i \in 1..(Len(colors) - 1) |-> RgbDistance(colors[i], colors[i + 1])]

evaluateBlur(r) ==
    LET faceBlurScores ==
            [i \in DOMAIN r.faceAnnotations |->
                One - convertLikelihood(r.faceAnnotations[i].blurredLikelihood)]
        n == Len(r.colors)
        \* edgeStrength / (255 * sqrt(3) * (n - 1)): 0/0 with one colour, -0 with none
        normalizedEdgeStrength ==
            IF n = 1 THEN NaN
            ELSE IF n = 0 THEN 0
            ELSE Min2((SumSeq(AdjacentDistances(r.colors)) * One)
                        \div (MaxRgbDistance * (n - 1)), One)
        blurScores ==
            faceBlurScores \o (IF r.hasColors THEN <<normalizedEdgeStrength>> ELSE <<>>)
        hasfaces == Len(r.faceAnnotations) > 0
        m == Len(blurScores)
    IN  IF m = 0 THEN 500
        ELSE IF hasfaces
        THEN LET faceBlurAverage ==
                     IF m = 1 THEN NaN
                     ELSE SumSeq(SubSeq(blurScores, 1, m - 1)) \div (m - 1)
                 edgeScore == blurScores[m]
                 total == FAdd(FScale(700, faceBlurAverage), FScale(300, edgeScore))
             IN  IF IsFinite(total) THEN total \div One ELSE total
        ELSE blurScores[1]

evaluateExposure(r) ==
    IF ~r.hasColors THEN 500
    ELSE LET brightness(c) == ((c.red + c.green + c.blue) * One) \div (3 * 255)
             totalBrightness ==
                 SumSeq([i \in DOMAIN r.colors |->
                            Mul(brightness(r.colors[i]), r.colors[i].pixelFraction)])
             totalWeight == SumSeq([i \in DOMAIN r.colors |-> r.colors[i].pixelFraction])
             averageBrightness ==
                 IF totalWeight > 0 THEN Div(totalBrightness, totalWeight) ELSE 500
         IN  One - Abs(averageBrightness - 500) * 2

evaluateNoise(r) ==
    IF ~r.hasColors THEN 500
    ELSE IF Len(r.colors) < 2 THEN 500
    ELSE LET d == AdjacentDistances(r.colors)
             weight(i) == r.colors[i].pixelFraction + r.colors[i + 1].pixelFraction
             penalty ==
                 SumSeq([i \in DOMAIN d |->
                            Mul((d[i] * One) \div MaxRgbDistance, weight(i))])
             totalWeight == SumSeq([i \in DOMAIN d |-> weight(i)])
             noiseScore == One - penalty
         IN  Max2(0, Min2(One, Div(noiseScore, IF totalWeight = 0 THEN One ELSE totalWeight)))

\* the bounding boxes of the faces and landmarks (no object annotation is requested)
Subjects(r) ==
    [i \in DOMAIN r.faceAnnotations |-> r.faceAnnotations[i].boundingBox]
    \o [i \in DOMAIN r.landmarkAnnotations |-> r.landmarkAnnotations[i].boundingBox]

CenterX(box) == box.left + box.width \div 2
CenterY(box) == box.top + box.height \div 2

\* a sub-score that may be null is a sequence of length 0 or 1
evaluateRuleOfThirds(r) ==
    LET subjects == Subjects(r)
        score(box) ==
            LET distanceToVertical ==
                    Min2(Abs(330 - CenterX(box)), Abs(670 - CenterX(box)))
                distanceToHorizontal ==
                    Min2(Abs(330 - CenterY(box)), Abs(670 - CenterY(box)))
            IN  One - Min2((distanceToVertical + distanceToHorizontal) \div 2, One)
    IN  IF subjects = <<>> THEN <<>>
        ELSE << SumSeq([i \in DOMAIN subjects |-> score(subjects[i])]) \div Len(subjects) >>

evaluateSubjectProminence(r) ==
    LET subjects == Subjects(r)
        score(box) ==
            LET subjectArea == Mul(box.width, box.height)
                areaScore == Min2(Div(subjectArea, 500), One)
                dx == CenterX(box) - 500
                dy == CenterY(box) - 500
                distanceFromCenter == ISqrt(dx * dx + dy * dy)
                positionScore == One - Min2(Div(distanceFromCenter, 500), One)
            IN  Mul(areaScore, 600) + Mul(positionScore, 400)
    IN  IF subjects = <<>> THEN <<>>
        ELSE << SumSeq([i \in DOMAIN subjects |-> score(subjects[i])]) \div Len(subjects) >>

evaluateVisualBalance(r) ==
    IF ~r.hasColors \/ r.colors = <<>> THEN <<>>
    ELSE LET weight(c) ==
                 (c.pixelFraction * (c.red + c.green + c.blue)) \div (3 * 255)
             half == SumSeq([i \in DOMAIN r.colors |-> Mul(weight(r.colors[i]), 500)])
             leftWeight == half
             rightWeight == half
             topWeight == half
             bottomWeight == half
             horizontalBalance == One - Abs(leftWeight - rightWeight)
             verticalBalance == One - Abs(topWeight - bottomWeight)
         IN  << Mul(horizontalBalance, 500) + Mul(verticalBalance, 500) >>

evaluateComposition(r) ==
    LET thirdsScore == evaluateRuleOfThirds(r)
        prominenceScore == evaluateSubjectProminence(r)
        balanceScore == evaluateVisualBalance(r)
        compositionScore ==
            (IF thirdsScore # <<>> THEN Mul(thirdsScore[1], 400) ELSE 0)
            + (IF prominenceScore # <<>> THEN Mul(prominenceScore[1], 300) ELSE 0)
            + (IF balanceScore # <<>> THEN Mul(balanceScore[1], 300) ELSE 0)
        scoreComponents == Len(thirdsScore) + Len(prominenceScore) + Len(balanceScore)
    IN  IF scoreComponents > 0 THEN compositionScore \div scoreComponents ELSE 500

---------------------------------------------------------------------------
(* analyzePhoto: the EnhancedPhoto built from a photo and the annotation   *)
(* response the provider returned for it.  brightness, contrast, sharpness,*)
(* safeSearch and clustering are never read again and are left out.        *)

processImageProperties(r) ==
    [dominantColors |-> IF r.hasColors THEN r.colors ELSE <<>>]

analyzePhoto(photo, r) ==
    [id |-> photo.id,
     dateTime |-> photo.dateTime,
     location |-> photo.location,
     analysis |->
        [faces |->
            [i \in DOMAIN r.faceAnnotations |->
                LET face == r.faceAnnotations[i]
                IN  [boundingBox |-> face.boundingBox,
                     emotions |->
                        [joy |-> convertLikelihood(face.joyLikelihood),
                         sorrow |-> convertLikelihood(face.sorrowLikelihood),
                         anger |-> convertLikelihood(face.angerLikelihood),
                         surprise |-> convertLikelihood(face.surpriseLikelihood)],
                     confidence |-> face.detectionConfidence,
                     blurred |-> convertLikelihood(face.blurredLikelihood) > 500]],
         labels |-> r.labelAnnotations,
         landmarks |-> r.landmarkAnnotations,
         imageProperties |-> processImageProperties(r),
         webDetection |->
            [webEntities |-> r.webEntities,
             visuallySimilarImages |-> r.visuallySimilarImages,
             partialMatchingImages |-> r.partialMatchingImages],
         quality |->
            [blurScore |-> evaluateBlur(r),
             exposureScore |-> evaluateExposure(r),
             noiseScore |-> evaluateNoise(r),
             compositionScore |-> evaluateComposition(r)]]]

---------------------------------------------------------------------------
(* distance, colors, photo-meta-similarity *)

\* Earth's radius times one degree in radians, in metres per degree
MetresPerDegree == 111195

\* Haversine distance in metres.  Latitudes and longitudes are in
\* millionths of a degree; the photos of this model lie within two
\* kilometres of latitude 0, longitude 0, where the great-circle distance
\* is R * sqrt(dLat^2 + dLon^2) to within a millimetre.
calculateDistance(loc1, loc2) ==
    LET dLat == loc2.latitude - loc1.latitude
        dLon == loc2.longitude - loc1.longitude
    IN  (ISqrt(dLat * dLat + dLon * dLon) * MetresPerDegree) \div 1000000

\* distance < 30 on the parsed "r,g,b" strings
areColorsSimilar(c1, c2) ==
    (c1.red - c2.red) * (c1.red - c2.red)
    + (c1.green - c2.green) * (c1.green - c2.green)
    + (c1.blue - c2.blue) * (c1.blue - c2.blue) < 30 * 30

\* intersection.size / union.size
Jaccard(set1, set2) == Div(Cardinality(set1 \cap set2), Cardinality(set1 \cup set2))

calculateWebEntitySimilarity(photo1, photo2) ==
    LET entities1 == photo1.analysis.webDetection.webEntities
        entities2 == photo2.analysis.webDetection.webEntities
        \* entityId is a sequence of length 0 (undefined) or 1
        ids(entities) ==
            {entities[i].entityId[1] : i \in {j \in DOMAIN entities : entities[j].entityId # <<>>}}
    IN  IF Len(entities1) = 0 \/ Len(entities2) = 0 THEN 0
        ELSE IF ids(entities1) = {} \/ ids(entities2) = {} THEN 0
        ELSE Jaccard(ids(entities1), ids(entities2))

calculateColorSimilarity(colors1, colors2) ==
    IF Len(colors1) = 0 \/ Len(colors2) = 0 THEN 0
    ELSE LET term(c1, c2) ==
                 LET similarity == One - (RgbDistance(c1, c2) * One) \div MaxRgbDistance
                 IN  Mul(similarity, Mul(c1.pixelFraction, c2.pixelFraction))
             totalSimilarity ==
                 SumSeq([i \in DOMAIN colors1 |->
                            SumSeq([j \in DOMAIN colors2 |-> term(colors1[i], colors2[j])])])
             comparisons == Len(colors1) * Len(colors2)
         IN  totalSimilarity \div comparisons

\* `${round(left)},${round(top)},${round(width)},${round(height)}`: the
\* element string is the tuple of the four integers it prints
LayoutElement(box) ==
    <<Round(box.left), Round(box.top), Round(box.width), Round(box.height)>>

\* elements.map(...).sort().join('|'), kept as the list of its '|'-separated
\* fields (no element holds a '|'; the order of the fields is never read)
createLayoutFingerprint(elements) ==
    [i \in DOMAIN elements |-> LayoutElement(elements[i])]

\* layout.split('|'): the empty string splits into one empty field
SplitLayout(layout) == IF layout = <<>> THEN << <<>> >> ELSE layout

calculateLayoutSimilarity(layout1, layout2) ==
    LET elements1 == SplitLayout(layout1)
        elements2 == SplitLayout(layout2)
        maxLength == Max2(Len(elements1), Len(elements2))
        matchingElements ==
            Cardinality({i \in DOMAIN elements1 : elements1[i] \in Range(elements2)})
    IN  Div(matchingElements, maxLength)

\* the bounding boxes of an analysed photo's faces and landmarks
getVisualElements(photo) ==
    [i \in DOMAIN photo.analysis.faces |-> photo.analysis.faces[i].boundingBox]
    \o [i \in DOMAIN photo.analysis.landmarks |-> photo.analysis.landmarks[i].boundingBox]

calculateVisualFeatureSimilarity(photo1, photo2) ==
    LET colorSimilarity ==
            calculateColorSimilarity(photo1.analysis.imageProperties.dominantColors,
                                     photo2.analysis.imageProperties.dominantColors)
        layout1 == createLayoutFingerprint(getVisualElements(photo1))
        layout2 == createLayoutFingerprint(getVisualElements(photo2))
        layoutSimilarity == calculateLayoutSimilarity(layout1, layout2)
    IN  Mul(colorSimilarity, 600) + Mul(layoutSimilarity, 400)

calculateLabelSimilarity(photo1, photo2) ==
    LET labels1 == {photo1.analysis.labels[i].description : i \in DOMAIN photo1.analysis.labels}
        labels2 == {photo2.analysis.labels[i].description : i \in DOMAIN photo2.analysis.labels}
    IN  IF labels1 = {} \/ labels2 = {} THEN 0 ELSE Jaccard(labels1, labels2)

timeThreshold == 5 * 60 * 1000
distanceThreshold == 100

checkPhotoSimilarity(photo1, photo2) ==
    LET timeDiff == Abs(photo1.dateTime - photo2.dateTime)
        totalSimilarity ==
            calculateLabelSimilarity(photo1, photo2) * 400
            + calculateWebEntitySimilarity(photo1, photo2) * 300
            + calculateVisualFeatureSimilarity(photo1, photo2) * 300
    IN  IF timeDiff > timeThreshold THEN FALSE
        ELSE IF photo1.location # <<>> /\ photo2.location # <<>>
                /\ calculateDistance(photo1.location[1], photo2.location[1]) > distanceThreshold
        THEN FALSE
        ELSE totalSimilarity > 800 * One

---------------------------------------------------------------------------
(* Scoring engine: the closures of selectHighlights and the uniqueness     *)
(* methods.  pool is this.photos and freq is this.labelFrequencies as they *)
(* are when the photo is scored.                                           *)

calculateQualityScore(quality) ==
    LET total ==
            FAdd(FAdd(FScale(350, quality.blurScore), FScale(250, quality.exposureScore)),
                 FAdd(FScale(200, quality.noiseScore), FScale(200, quality.compositionScore)))
    IN  IF IsFinite(total) THEN total \div One ELSE total

calculateFaceInterestScore(faces) ==
    IF Len(faces) = 0 THEN 0
    ELSE LET faceScore(face) ==
                 LET emotionScore ==
                         Max2(Max2(face.emotions.joy, face.emotions.surprise),
                              Max2(Mul(face.emotions.sorrow, 500), Mul(face.emotions.anger, 500)))
                     qualityScore ==
                         Mul(face.confidence, IF face.blurred THEN 500 ELSE One)
                 IN  Mul(emotionScore, 600) + Mul(qualityScore, 400)
             multipleFaceFactor == Min2(Div(Len(faces), 3), One)
             averageScore == SumSeq([i \in DOMAIN faces |-> faceScore(faces[i])]) \div Len(faces)
         IN  Mul(averageScore, One + Mul(multipleFaceFactor, 200))

calculateLandmarkInterestScore(landmarks) ==
    IF Len(landmarks) = 0 THEN 0
    ELSE MaxSeq([i \in DOMAIN landmarks |->
                    Mul(landmarks[i].score, IF landmarks[i].hasLocation THEN 1200 ELSE One)], 0)

calculateWebInterestScore(webDetection) ==
    LET entities == webDetection.webEntities
    IN  IF Len(entities) = 0 THEN 0
        ELSE LET averageScore ==
                     SumSeq([i \in DOMAIN entities |->
                                Mul(entities[i].score,
                                    IF entities[i].hasDescription THEN 1200 ELSE One)])
                     \div Len(entities)
             IN  Min2(Div(averageScore, 800), One)

interestingCategories ==
    << \* events: wedding, party, celebration, ceremony, festival
       << <<119,101,100,100,105,110,103>>,
          <<112,97,114,116,121>>,
          <<99,101,108,101,98,114,97,116,105,111,110>>,
          <<99,101,114,101,109,111,110,121>>,
          <<102,101,115,116,105,118,97,108>> >>,
       \* activities: sport, dance, performance, game, adventure
       << <<115,112,111,114,116>>,
          <<100,97,110,99,101>>,
          <<112,101,114,102,111,114,109,97,110,99,101>>,
          <<103,97,109,101>>,
          <<97,100,118,101,110,116,117,114,101>> >>,
       \* nature: sunset, beach, mountain, landscape, wildlife
       << <<115,117,110,115,101,116>>,
          <<98,101,97,99,104>>,
          <<109,111,117,110,116,97,105,110>>,
          <<108,97,110,100,115,99,97,112,101>>,
          <<119,105,108,100,108,105,102,101>> >>,
       \* emotions: smile, happy, joy, laugh, excited
       << <<115,109,105,108,101>>,
          <<104,97,112,112,121>>,
          <<106,111,121>>,
          <<108,97,117,103,104>>,
          <<101,120,99,105,116,101,100>> >>,
       \* landmarks: monument, building, architecture, statue, tower
       << <<109,111,110,117,109,101,110,116>>,
          <<98,117,105,108,100,105,110,103>>,
          <<97,114,99,104,105,116,101,99,116,117,114,101>>,
          <<115,116,97,116,117,101>>,
          <<116,111,119,101,114>> >> >>

calculateLabelInterestScore(labels) ==
    LET matches(label, category) ==
            \E k \in DOMAIN interestingCategories[category] :
                includes(toLowerCase(label.description), interestingCategories[category][k])
        matched == {c \in DOMAIN interestingCategories :
                        \E i \in DOMAIN labels : matches(labels[i], c)}
        \* categoryScores.get(category): the greatest score of a matching label
        categoryScore(c) ==
            MaxSeq([i \in DOMAIN labels |->
                        IF matches(labels[i], c) THEN labels[i].score ELSE 0], 0)
        size == Cardinality(matched)
        averageCategoryScore ==
            SumSeq([c \in DOMAIN interestingCategories |->
                        IF c \in matched THEN categoryScore(c) ELSE 0]) \div size
        diversityBonus == Min2((size - 1) * 100, 300)
    IN  IF size = 0 THEN 400
        ELSE Min2(averageCategoryScore + diversityBonus, One)

calculateInterestScore(analysis) ==
    Mul(calculateFaceInterestScore(analysis.faces), 350)
    + Mul(calculateLandmarkInterestScore(analysis.landmarks), 250)
    + Mul(calculateLabelInterestScore(analysis.labels), 250)
    + Mul(calculateWebInterestScore(analysis.webDetection), 150)

calculateEmotionScore(faces) ==
    IF Len(faces) = 0 THEN 500
    ELSE LET positive(face) == face.emotions.joy + Mul(face.emotions.surprise, 700)
             negative(face) == face.emotions.sorrow + face.emotions.anger
             totalPositive ==
                 SumSeq([i \in DOMAIN faces |-> Mul(positive(faces[i]), faces[i].confidence)])
             totalNegative ==
                 SumSeq([i \in DOMAIN faces |-> Mul(negative(faces[i]), faces[i].confidence)])
             totalConfidence == SumSeq([i \in DOMAIN faces |-> faces[i].confidence])
         IN  IF totalConfidence = 0 THEN 500
             ELSE LET normalizedPositive == Div(totalPositive, totalConfidence)
                      normalizedNegative == Div(totalNegative, totalConfidence)
                  IN  Min2(Mul(normalizedPositive, 800) + Mul(One - normalizedNegative, 200), One)

\* map.get(key) || 1
FrequencyOf(map, key) == IF key \in DOMAIN map /\ map[key] # 0 THEN map[key] ELSE 1

\* 1 / Math.sqrt(frequency)
InverseSqrt(frequency) == ISqrt((One * One) \div frequency)

\* the index pairs (i, j), i < j, of the nested loops over a label list
LabelPairs(labels) ==
    {pair \in (DOMAIN labels) \X (DOMAIN labels) : pair[1] < pair[2]}

RECURSIVE SumOver(_, _)
SumOver(set, value) ==
    IF set = {} THEN 0
    ELSE LET x == CHOOSE y \in set : TRUE
         IN  value[x] + SumOver(set \ {x}, value)

calculateLabelUniqueness(labels, freq) ==
    IF Len(labels) = 0 THEN 0
    ELSE LET individualScores ==
                 [i \in DOMAIN labels |->
                     Mul(InverseSqrt(FrequencyOf(freq.individual, labels[i].description)),
                         labels[i].score)]
             pairs == LabelPairs(labels)
             combinationScores ==
                 [pair \in pairs |->
                     LET combo == ComboKey(labels[pair[1]].description,
                                           labels[pair[2]].description)
                     IN  Mul(InverseSqrt(FrequencyOf(freq.combinations, combo)),
                             Min2(labels[pair[1]].score, labels[pair[2]].score))]
             avgIndividualScore == SumSeq(individualScores) \div Len(labels)
             avgCombinationScore ==
                 IF pairs # {} THEN SumOver(pairs, combinationScores) \div Cardinality(pairs)
                 ELSE 0
         IN  Mul(avgIndividualScore, 400) + Mul(avgCombinationScore, 600)

calculateVisualUniqueness(webDetection) ==
    IF webDetection.visuallySimilarImages = 0 THEN One
    ELSE LET similarityScore == Max2(0, One - Div(webDetection.visuallySimilarImages, 10))
             partialMatchScore ==
                 IF webDetection.partialMatchingImages # 0
                 THEN Max2(0, One - Div(webDetection.partialMatchingImages, 5))
                 ELSE One
         IN  Mul(similarityScore, 700) + Mul(partialMatchScore, 300)

calculateColorUniqueness(properties, pool) ==
    LET colors == properties.dominantColors
        similarityCount(color) ==
            Cardinality({k \in DOMAIN pool :
                \E j \in DOMAIN pool[k].analysis.imageProperties.dominantColors :
                    areColorsSimilar(color, pool[k].analysis.imageProperties.dominantColors[j])})
        uniquenessScore ==
            SumSeq([i \in DOMAIN colors |->
                        Mul(One - Div(similarityCount(colors[i]), Len(pool)),
                            colors[i].pixelFraction)])
    IN  IF Len(colors) = 0 THEN 0 ELSE uniquenessScore \div Len(colors)

calculateLayoutUniqueness(photo, pool) ==
    LET elements == getVisualElements(photo)
        layoutFingerprint == createLayoutFingerprint(elements)
        similarLayoutCount ==
            Cardinality({k \in DOMAIN pool :
                calculateLayoutSimilarity(layoutFingerprint,
                    createLayoutFingerprint(getVisualElements(pool[k]))) > 800})
    IN  IF Len(elements) = 0 THEN 500
        ELSE One - Div(similarLayoutCount, Len(pool))

calculateCompositionUniqueness(photo, pool) ==
    Mul(calculateColorUniqueness(photo.analysis.imageProperties, pool), 500)
    + Mul(calculateLayoutUniqueness(photo, pool), 500)

calculateUniquenessScore(photo, pool, freq) ==
    Mul(calculateLabelUniqueness(photo.analysis.labels, freq), 400)
    + Mul(calculateVisualUniqueness(photo.analysis.webDetection), 400)
    + Mul(calculateCompositionUniqueness(photo, pool), 200)

calculateRelevanceScore(photo, preferredTypes) ==
    LET labels == photo.analysis.labels
        relevant(label) ==
            \E t \in DOMAIN preferredTypes :
                includes(toLowerCase(label.description), toLowerCase(preferredTypes[t]))
        relevantLabels == {i \in DOMAIN labels : relevant(labels[i])}
    IN  IF Len(preferredTypes) = 0 THEN One
        ELSE IF relevantLabels = {} THEN 0
        ELSE SumOver(relevantLabels, [i \in DOMAIN labels |-> labels[i].score])
             \div Cardinality(relevantLabels)

\* the distance from the middle taken with its sign
calculateTemporalScore_signed(dateTime, timeRange) ==
    LET totalRange == timeRange.end - timeRange.start
        position == dateTime - timeRange.start
    IN  IF totalRange = 0 THEN (IF position = 0 THEN NaN ELSE NegInf)
        ELSE One - (500 - Div(position, totalRange))

calculateTemporalScore(dateTime, timeRange) ==
    LET totalRange == timeRange.end - timeRange.start
        position == dateTime - timeRange.start
    IN  \* position / 0 is NaN for position 0 and an infinity otherwise
        IF totalRange = 0 THEN (IF position = 0 THEN NaN ELSE NegInf)
        ELSE LET normalizedPosition == Div(position, totalRange)
                 distanceFromMiddle == Abs(500 - normalizedPosition)
             IN  One - distanceFromMiddle

WeightKeys == <<"quality", "interest", "emotion", "uniqueness", "relevance", "temporal">>

defaultWeights ==
    [quality |-> 250, interest |-> 200, emotion |-> 150,
     uniqueness |-> 150, relevance |-> 150, temporal |-> 100]

\* { ...this.defaultWeights, ...options.weights }
MergedWeights(options) ==
    [k \in Range(WeightKeys) |->
        IF k \in DOMAIN options.weights THEN options.weights[k] ELSE defaultWeights[k]]

\* scores.final, in millionths: the sum of weight * score over the six keys
FinalScore(scores, weights) ==
    LET term(i) == FScale(weights[WeightKeys[i]], scores[WeightKeys[i]])
    IN  FAdd(FAdd(FAdd(term(1), term(2)), FAdd(term(3), term(4))), FAdd(term(5), term(6)))

\* the body of the this.photos.map callback: the photo's scores
ScorePhoto(photo, pool, freq, options) ==
    LET scores ==
            [quality |-> calculateQualityScore(photo.analysis.quality),
             interest |-> calculateInterestScore(photo.analysis),
             emotion |-> calculateEmotionScore(photo.analysis.faces),
             uniqueness |-> calculateUniquenessScore(photo, pool, freq),
             relevance |-> calculateRelevanceScore(photo, options.preferredTypes),
             temporal |-> calculateTemporalScore(photo.dateTime, options.timeRange)]
    IN  [quality |-> scores.quality, interest |-> scores.interest,
         emotion |-> scores.emotion, uniqueness |-> scores.uniqueness,
         relevance |-> scores.relevance, temporal |-> scores.temporal,
         final |-> FinalScore(scores, MergedWeights(options))]

---------------------------------------------------------------------------
(* The photos of the model and the annotation response the provider gives  *)
(* for each.  Times are milliseconds from a common origin.                 *)

Beach == <<66,101,97,99,104>>
Sunset == <<83,117,110,115,101,116>>
Person == <<80,101,114,115,111,110>>
Food == <<70,111,111,100>>

NoLocation == <<>>
At(lat, lon) == << [latitude |-> lat, longitude |-> lon] >>

Box(l, t, w, h) == [left |-> l, top |-> t, width |-> w, height |-> h]
Color(r, g, b, fraction) == [red |-> r, green |-> g, blue |-> b, pixelFraction |-> fraction]
Label(d, s) == [description |-> d, score |-> s]
Entity(id, s, described) == [entityId |-> id, score |-> s, hasDescription |-> described]
Face(box, joy, blurredLikelihood, confidence) ==
    [boundingBox |-> box, joyLikelihood |-> joy, sorrowLikelihood |-> "VERY_UNLIKELY",
     angerLikelihood |-> "VERY_UNLIKELY", surpriseLikelihood |-> "UNLIKELY",
     blurredLikelihood |-> blurredLikelihood, detectionConfidence |-> confidence]

Response(faces, labels, landmarks, hasColors, colors, entities, similar, partial) ==
    [faceAnnotations |-> faces, labelAnnotations |-> labels,
     landmarkAnnotations |-> landmarks, hasColors |-> hasColors, colors |-> colors,
     webEntities |-> entities, visuallySimilarImages |-> similar,
     partialMatchingImages |-> partial]

Photo(id, dateTime, location) == [id |-> id, dateTime |-> dateTime, location |-> location]

\* 1, 2: two shots of one beach scene, two seconds apart, the second one
\*       the better; 3, 4: two portraits, 3 with two faces whose rounded
\*       boxes coincide; 5: a plain picture of one dominant colour;
\*       6: a dish photographed elsewhere, later; 7: a third shot of the
\*       beach scene, 95 m from 2 and 101 m from 1
Photos ==
    << Photo("a", 130000, At(100, 100)),
       Photo("b", 128000, At(150, 100)),
       Photo("p", 370000, NoLocation),
       Photo("q", 490000, NoLocation),
       Photo("n", 720000, At(9000, 0)),
       Photo("m", 1000000, At(20000, 0)),
       Photo("c", 129000, At(1010, 100)) >>

Responses ==
    << Response(<<>>, <<Label(Beach, 900), Label(Sunset, 800)>>, <<>>, TRUE,
                <<Color(200, 100, 50, 600), Color(20, 40, 200, 400)>>,
                <<Entity(<<"e1">>, 700, FALSE)>>, 4, 0),
       Response(<<>>, <<Label(Beach, 950), Label(Sunset, 900)>>, <<>>, TRUE,
                <<Color(205, 100, 50, 600), Color(20, 45, 200, 400)>>,
                <<Entity(<<"e1">>, 800, TRUE)>>, 0, 0),
       Response(<<Face(Box(200, 200, 300, 300), "LIKELY", "UNLIKELY", 900),
                  Face(Box(300, 100, 400, 400), "POSSIBLE", "VERY_UNLIKELY", 800)>>,
                <<Label(Person, 900)>>, <<>>, FALSE, <<>>,
                <<Entity(<<"e2">>, 600, TRUE)>>, 0, 0),
       Response(<<Face(Box(200, 200, 300, 300), "VERY_LIKELY", "VERY_UNLIKELY", 900),
                  Face(Box(2000, 1000, 400, 400), "POSSIBLE", "VERY_UNLIKELY", 800)>>,
                <<Label(Person, 850)>>, <<>>, FALSE, <<>>,
                <<Entity(<<"e2">>, 600, TRUE)>>, 0, 0),
       Response(<<>>, <<Label(Food, 700), Label(Beach, 300)>>, <<>>, TRUE,
                <<Color(120, 120, 120, 1000)>>, <<>>, 12, 6),
       Response(<<>>, <<Label(Food, 800)>>, <<>>, TRUE,
                <<Color(180, 60, 40, 700), Color(240, 230, 210, 300)>>,
                <<Entity(<<"e3">>, 500, TRUE)>>, 2, 0),
       Response(<<>>, <<Label(Beach, 950), Label(Sunset, 900)>>, <<>>, TRUE,
                <<Color(205, 100, 50, 600), Color(20, 45, 200, 400)>>,
                <<Entity(<<"e1">>, 800, TRUE)>>, 0, 0) >>

Keys == DOMAIN Photos

\* the EnhancedPhoto analyzePhoto returns for each photo
Enhanced == [k \in Keys |-> analyzePhoto(Photos[k], Responses[k])]

---------------------------------------------------------------------------
(* Grouping and diverse selection.  scored is the list scoredPhotos; a     *)
(* scored photo is [key, scores], key naming the analysed photo.  Lists of *)
(* photos (groups, selections, the result) hold positions in scored: two   *)
(* entries with one position are one object.                               *)

\* checkPhotoSimilarity on the photos of the model, computed once:
\* Similar[k1][k2] is checkPhotoSimilarity(photo k1, photo k2)
Similar ==
    [k1 \in Keys |-> [k2 \in Keys |-> checkPhotoSimilarity(Enhanced[k1], Enhanced[k2])]]

\* Array.prototype.sort with the comparator (a, b) => b.k - a.k: stable,
\* descending in k
RECURSIVE InsertDescending(_, _)
InsertDescending(sorted, x) ==
    IF sorted = <<>> THEN <<x>>
    ELSE IF Head(sorted).k >= x.k THEN <<Head(sorted)>> \o InsertDescending(Tail(sorted), x)
    ELSE <<x>> \o sorted

RECURSIVE SortDescending(_)
SortDescending(items) ==
    IF items = <<>> THEN <<>>
    ELSE InsertDescending(SortDescending(SubSeq(items, 1, Len(items) - 1)), items[Len(items)])

\* a photo absorbed when it is similar to any photo the group holds so far
RECURSIVE AbsorbSimilar_closure(_, _, _, _)
AbsorbSimilar_closure(scored, anchor, j, acc) ==
    IF j > Len(scored) THEN acc
    ELSE IF Enhanced[scored[anchor].key].id = Enhanced[scored[j].key].id
            \/ Enhanced[scored[j].key].id \in acc.processedIds
         THEN AbsorbSimilar_closure(scored, anchor, j + 1, acc)
         ELSE IF \E n \in DOMAIN acc.similarPhotos :
                     Similar[scored[acc.similarPhotos[n]].key][scored[j].key]
         THEN AbsorbSimilar_closure(scored, anchor, j + 1,
                  [similarPhotos |-> Append(acc.similarPhotos, j),
                   processedIds |-> acc.processedIds \cup {Enhanced[scored[j].key].id}])
         ELSE AbsorbSimilar_closure(scored, anchor, j + 1, acc)

\* the inner forEach of groupSimilarPhotos: from position j on, absorb the
\* photos similar to the anchor that are not processed yet
RECURSIVE AbsorbSimilar(_, _, _, _)
AbsorbSimilar(scored, anchor, j, acc) ==
    IF j > Len(scored) THEN acc
    ELSE LET other == Enhanced[scored[j].key]
             photo == Enhanced[scored[anchor].key]
         IN  IF photo.id = other.id \/ other.id \in acc.processedIds
             THEN AbsorbSimilar(scored, anchor, j + 1, acc)
             ELSE IF Similar[scored[anchor].key][scored[j].key]
             THEN AbsorbSimilar(scored, anchor, j + 1,
                      [similarPhotos |-> Append(acc.similarPhotos, j),
                       processedIds |-> acc.processedIds \cup {other.id}])
             ELSE AbsorbSimilar(scored, anchor, j + 1, acc)

\* the outer forEach: groups is the Map in insertion order, a list of
\* [id, photos]
RECURSIVE GroupFrom(_, _, _, _)
GroupFrom(scored, i, groups, processedIds) ==
    IF i > Len(scored) THEN groups
    ELSE LET photo == Enhanced[scored[i].key]
         IN  IF photo.id \in processedIds
             THEN GroupFrom(scored, i + 1, groups, processedIds)
             ELSE LET acc == AbsorbSimilar(scored, i, 1,
                                 [similarPhotos |-> <<i>>,
                                  processedIds |-> processedIds \cup {photo.id}])
                  IN  GroupFrom(scored, i + 1,
                                Append(groups, [id |-> photo.id, photos |-> acc.similarPhotos]),
                                acc.processedIds)

groupSimilarPhotos(scored) == GroupFrom(scored, 1, <<>>, {})

NumBuckets == 10

\* Times are whole milliseconds counted from a base instant between 2^40
\* and 2^41 ms after the epoch (2004 to 2039), where a double keeps 12
\* fraction bits: every sum time + bucketDuration is rounded to a multiple
\* of 1/Grid ms.
Grid == 2 ^ 12

\* the buckets of createTimeBuckets.  bucketDuration = totalDuration / 10 is
\* whole + rest / 10 ms; time advances from start by bucketDuration while
\* time < end, each sum rounded to the grid, so that after k additions time
\* is start + k * whole + k * step / Grid.  When ten rounded steps fall
\* short of totalDuration the loop runs an eleventh time.  new Date(x)
\* truncates x to whole milliseconds.
createTimeBuckets(timeRange) ==
    LET totalDuration == timeRange.end - timeRange.start
        whole == totalDuration \div NumBuckets
        rest == totalDuration % NumBuckets
        step == (rest * Grid + NumBuckets \div 2) \div NumBuckets
        truncated(k) == timeRange.start + k * whole + (k * step) \div Grid
        count == IF NumBuckets * step < rest * Grid THEN NumBuckets + 1 ELSE NumBuckets
    IN  IF totalDuration <= 0 THEN <<>>
        ELSE [k \in 1..count |->
                [start |-> truncated(k - 1),
                 end |-> Min2(truncated(k), timeRange.end)]]

\* (photo.scores?.quality || 0) >= minQuality
MeetsQuality(scoredPhoto, minQuality) == FGeq(OrZero(scoredPhoto.scores.quality), minQuality)

\* photo.scores?.final || 0
FinalOrZero(scoredPhoto) == OrZero(scoredPhoto.scores.final)

\* the filter without its test against bucket.end
getEligibleGroupsForBucket_open(scored, groups, bucket, usedGroups, minQuality) ==
    LET inBucket(p) ==
            /\ Enhanced[scored[p].key].dateTime >= bucket.start
            /\ MeetsQuality(scored[p], minQuality)
        kept == SelectSeq([g \in DOMAIN groups |-> g],
                          LAMBDA g : /\ groups[g].id \notin usedGroups
                                     /\ SelectSeq(groups[g].photos, inBucket) # <<>>)
    IN  [n \in DOMAIN kept |->
            [id |-> groups[kept[n]].id, photos |-> SelectSeq(groups[kept[n]].photos, inBucket)]]

getEligibleGroupsForBucket(scored, groups, bucket, usedGroups, minQuality) ==
    LET inBucket(p) ==
            /\ Enhanced[scored[p].key].dateTime >= bucket.start
            /\ Enhanced[scored[p].key].dateTime <= bucket.end
            /\ MeetsQuality(scored[p], minQuality)
        bucketPhotos(g) == SelectSeq(groups[g].photos, inBucket)
        eligible(g) == groups[g].id \notin usedGroups /\ bucketPhotos(g) # <<>>
        entry(g) == [id |-> groups[g].id, photos |-> bucketPhotos(g)]
        kept == SelectSeq([g \in DOMAIN groups |-> g], eligible)
    IN  [n \in DOMAIN kept |-> entry(kept[n])]

isPhotoDiverse(scored, photo, selectedPhotos) ==
    \A n \in DOMAIN selectedPhotos :
        ~Similar[scored[photo].key][scored[selectedPhotos[n]].key]

\* the first photo of the group taken without the reduce
BestPhoto_first(scored, photos, best) == best

\* group.photos.reduce(...): the first photo with the greatest final score
RECURSIVE BestPhoto(_, _, _)
BestPhoto(scored, photos, best) ==
    IF photos = <<>> THEN best
    ELSE BestPhoto(scored, Tail(photos),
                   IF FinalOrZero(scored[Head(photos)]) > FinalOrZero(scored[best])
                   THEN Head(photos) ELSE best)

RECURSIVE WalkGroups(_, _, _, _, _)
WalkGroups(scored, sortedGroups, count, alreadySelected, selections) ==
    IF sortedGroups = <<>> \/ Len(selections) >= count THEN selections
    ELSE LET group == Head(sortedGroups)
             bestPhoto == BestPhoto(scored, Tail(group.photos), Head(group.photos))
         IN  WalkGroups(scored, Tail(sortedGroups), count, alreadySelected,
                        IF isPhotoDiverse(scored, bestPhoto,
                                          alreadySelected \o selections)
                        THEN Append(selections, bestPhoto) ELSE selections)

\* the walk over the sorted groups without its break at count
selectBestGroupsFromBucket_all(scored, eligibleGroups, count, alreadySelected) ==
    WalkGroups(scored,
               SortDescending([g \in DOMAIN eligibleGroups |->
                   [photos |-> eligibleGroups[g].photos,
                    k |-> MaxSeq([n \in DOMAIN eligibleGroups[g].photos |->
                                     FinalOrZero(scored[eligibleGroups[g].photos[n]])], NegInf)]]),
               Len(eligibleGroups), alreadySelected, <<>>)

selectBestGroupsFromBucket(scored, eligibleGroups, count, alreadySelected) ==
    LET bestScore(photos) ==
            MaxSeq([n \in DOMAIN photos |-> FinalOrZero(scored[photos[n]])], NegInf)
        sortedGroups ==
            SortDescending([g \in DOMAIN eligibleGroups |->
                               [photos |-> eligibleGroups[g].photos,
                                k |-> bestScore(eligibleGroups[g].photos)]])
    IN  WalkGroups(scored, sortedGroups, count, alreadySelected, <<>>)

RECURSIVE FlattenPhotos(_)
FlattenPhotos(lists) ==
    IF lists = <<>> THEN <<>> ELSE Head(lists) \o FlattenPhotos(Tail(lists))

\* the candidates cut to count in the order the groups give them
selectRemainingBestPhotos_unsorted(scored, groups, usedGroups, count, minQuality) ==
    LET meets(p) == MeetsQuality(scored[p], minQuality)
    IN  SliceTo(FlattenPhotos([g \in DOMAIN groups |->
                                  IF groups[g].id \notin usedGroups
                                  THEN SelectSeq(groups[g].photos, meets) ELSE <<>>]),
                count)

selectRemainingBestPhotos(scored, groups, usedGroups, count, minQuality) ==
    LET meets(p) == MeetsQuality(scored[p], minQuality)
        candidates ==
            FlattenPhotos([g \in DOMAIN groups |->
                              IF groups[g].id \notin usedGroups
                              THEN SelectSeq(groups[g].photos, meets) ELSE <<>>])
        sorted ==
            SortDescending([n \in DOMAIN candidates |->
                               [photo |-> candidates[n], k |-> FinalOrZero(scored[candidates[n]])]])
    IN  SliceTo([n \in DOMAIN sorted |-> sorted[n].photo], count)

\* Math.ceil(a / b) for integers a >= 0, b > 0
Ceil(a, b) == (a + b - 1) \div b

\* bucketSelections.forEach: the photo is pushed to selectedPhotos and its
\* id added to usedGroups
AcceptSelections(scored, acc, bucketSelections) ==
    [selectedPhotos |-> acc.selectedPhotos \o bucketSelections,
     usedGroups |->
        acc.usedGroups
        \cup {Enhanced[scored[bucketSelections[n]].key].id : n \in DOMAIN bucketSelections},
     perBucket |-> Append(acc.perBucket, bucketSelections)]

\* timeBuckets.forEach, from bucket b on: acc holds selectedPhotos and
\* usedGroups, and perBucket, what each bucket contributed
RECURSIVE FillBuckets(_, _, _, _, _, _)
FillBuckets(scored, groups, options, timeBuckets, b, acc) ==
    IF b > Len(timeBuckets) THEN acc
    ELSE FillBuckets(scored, groups, options, timeBuckets, b + 1,
             AcceptSelections(scored, acc,
                 selectBestGroupsFromBucket(scored,
                     getEligibleGroupsForBucket(scored, groups, timeBuckets[b],
                                                acc.usedGroups, options.minQuality),
                     Ceil(options.limit, Len(timeBuckets)),
                     acc.selectedPhotos)))

\* selectedPhotos.slice(0, options.limit)
LimitTo_unbounded(selectedPhotos, limit) == selectedPhotos

LimitTo(selectedPhotos, limit) == SliceTo(selectedPhotos, limit)

\* no backfill: the fill is returned as it is
RemainingSelections_none(scored, groups, options, fill) == <<>>

\* lines 664-673: the photos backfill appends to what the fill accepted
RemainingSelections(scored, groups, options, fill) ==
    IF Len(fill.selectedPhotos) < options.limit
    THEN selectRemainingBestPhotos(scored, groups, fill.usedGroups,
                                   options.limit - Len(fill.selectedPhotos),
                                   options.minQuality)
    ELSE <<>>

\* what selectDiverseHighlights returns (result) and its locals when it
\* returns: primary is selectedPhotos after the per-bucket fill
Selection(fill, remainingSelections, options) ==
    [primary |-> fill.selectedPhotos,
     perBucket |-> fill.perBucket,
     usedGroups |-> fill.usedGroups,
     backfill |-> remainingSelections,
     result |-> LimitTo(fill.selectedPhotos \o remainingSelections, options.limit)]

FillThenBackfill(scored, groups, options, fill) ==
    Selection(fill, RemainingSelections(scored, groups, options, fill), options)

selectDiverseHighlights(scored, groups, options) ==
    FillThenBackfill(scored, groups, options,
        FillBuckets(scored, groups, options, createTimeBuckets(options.timeRange), 1,
                    [selectedPhotos |-> <<>>, usedGroups |-> {}, perBucket |-> <<>>]))

---------------------------------------------------------------------------
(* Label frequency tracker *)

EmptyMap == [key \in {} |-> 0]

\* map.get(key) || 0
CountOf(map, key) == IF key \in DOMAIN map THEN map[key] ELSE 0

\* map.set(key, 1): the count started over
Increment_reset(map, key) == [x \in DOMAIN map \cup {key} |-> IF x = key THEN 1 ELSE map[x]]

\* map.set(key, (map.get(key) || 0) + 1)
Increment(map, key) ==
    [x \in DOMAIN map \cup {key} |-> IF x = key THEN CountOf(map, key) + 1 ELSE map[x]]

RECURSIVE IncrementAll(_, _)
IncrementAll(map, keys) ==
    IF keys = <<>> THEN map ELSE IncrementAll(Increment(map, Head(keys)), Tail(keys))

\* the keys of the nested loops, i from 0 to length - 2, j from i + 1 on
RECURSIVE ComboKeysFrom(_, _, _)
ComboKeysFrom(labels, i, j) ==
    IF i > Len(labels) - 1 THEN <<>>
    ELSE IF j > Len(labels) THEN ComboKeysFrom(labels, i + 1, i + 2)
    ELSE <<ComboKey(labels[i].description, labels[j].description)>>
         \o ComboKeysFrom(labels, i, j + 1)

\* the single loop only: the pairs are not counted
updateLabelFrequencies_individual(freq, labels) ==
    [individual |->
        IncrementAll(freq.individual, [i \in DOMAIN labels |-> labels[i].description]),
     combinations |-> freq.combinations]

updateLabelFrequencies(freq, labels) ==
    [individual |->
        IncrementAll(freq.individual, [i \in DOMAIN labels |-> labels[i].description]),
     combinations |-> IncrementAll(freq.combinations, ComboKeysFrom(labels, 1, 2))]

---------------------------------------------------------------------------
(* The selector and its callers.                                           *)
(*                                                                         *)
(* photos is this.photos, a list of keys of analysed photos;               *)
(* labelFrequencies is this.labelFrequencies.  adds[c] is caller c's       *)
(* addPhotos call and sel the selectHighlights call: where each stands     *)
(* (idle, awaiting, done), its arguments and its locals.  An action is one *)
(* run of the event loop, from a call or the settling of an awaited        *)
(* promise to the next await or return.  The fields outcomes, lenBefore,   *)
(* before, lenAfter, after of a call (the pool length and the individual   *)
(* counts when it was called and at its latest step), snapPhotos, snapFreq *)
(* of a pass (the pool and tables when it was called), livePhotos,         *)
(* liveFreq of its return (the same when it resumed), and prev record the  *)
(* past for the properties below; no action reads them.                    *)

VARIABLES photos, labelFrequencies, adds, sel, prev

vars == <<photos, labelFrequencies, adds, sel, prev>>

Callers == {"c1", "c2"}

MaxBatch == 2
MaxPending == 2
MaxLimit == 2
MaxPool == 5
MaxRepeat == 2

RECURSIVE SeqsUpTo(_, _)
SeqsUpTo(set, n) ==
    IF n = 0 THEN {<<>>}
    ELSE LET shorter == SeqsUpTo(set, n - 1)
         IN  shorter \cup {Append(q, x) : q \in {r \in shorter : Len(r) = n - 1}, x \in set}

IsInjective(q) == \A i, j \in DOMAIN q : q[i] = q[j] => i = j

\* the photos the callers of addPhotos submit
Submitted == {k \in Keys : Photos[k].id \in {"a", "n"}}

Batches == SeqsUpTo(Submitted, MaxBatch)

\* the pools a sequence of addPhotos calls can leave: any list of up to
\* MaxPool different photos, and any list of up to MaxRepeat photos
Pools ==
    LET pooled == {k \in Keys : Photos[k].id # "c"}
    IN  {q \in SeqsUpTo(pooled, MaxPool) : IsInjective(q)} \cup SeqsUpTo(pooled, MaxRepeat)

Wide == [start |-> 0, end |-> 1200000]
Narrow == [start |-> 130000, end |-> 150000]
Instant == [start |-> 130000, end |-> 130000]

NoWeights == [key \in {} |-> 0]

Options ==
    {[limit |-> l, timeRange |-> r, minQuality |-> q,
      preferredTypes |-> <<>>, weights |-> NoWeights] :
        l \in 0..MaxLimit, r \in {Wide, Narrow, Instant}, q \in {0, 550}}

IdleAdd ==
    [pc |-> "idle", photos |-> <<>>, i |-> 1, success |-> <<>>, failed |-> <<>>,
     outcomes |-> <<>>, lenBefore |-> 0, before |-> EmptyMap,
     lenAfter |-> 0, after |-> EmptyMap]

IdleSel == [pc |-> "idle", call |-> <<>>, ret |-> <<>>]

EmptyFrequencies == [individual |-> EmptyMap, combinations |-> EmptyMap]

\* the constructor
Init ==
    /\ photos = <<>>
    /\ labelFrequencies = EmptyFrequencies
    /\ adds = [c \in Callers |-> IdleAdd]
    /\ sel = IdleSel
    /\ prev = <<>>

\* the photos of the calls in flight that are not analysed yet
Pending(c) == IF adds[c].pc = "awaiting" THEN Len(adds[c].photos) - adds[c].i + 1 ELSE 0

RECURSIVE TotalPending(_)
TotalPending(callers) ==
    IF callers = {} THEN 0
    ELSE LET c == CHOOSE x \in callers : TRUE
         IN  Pending(c) + TotalPending(callers \ {c})

\* addPhotos(batch) up to its first await: the results are empty and the
\* analysis of the first photo is under way; an empty batch returns at once
addPhotos_call(c, batch) ==
    /\ adds[c].pc # "awaiting"
    /\ Len(photos) + TotalPending(Callers) + Len(batch) <= MaxPending
    /\ adds' = [adds EXCEPT ![c] =
                  [pc |-> IF batch = <<>> THEN "done" ELSE "awaiting",
                   photos |-> batch, i |-> 1, success |-> <<>>, failed |-> <<>>,
                   outcomes |-> <<>>, lenBefore |-> Len(photos),
                   before |-> labelFrequencies.individual,
                   lenAfter |-> Len(photos),
                   after |-> labelFrequencies.individual]]
    /\ UNCHANGED <<photos, labelFrequencies, sel, prev>>

\* where the loop stands after photo i: the next analysis, or the return
AfterPhoto(call) == IF call.i = Len(call.photos) THEN "done" ELSE "awaiting"

\* analyzePhoto resolved: lines 75-77, then the loop goes on
addPhotos_resolved(c) ==
    /\ adds[c].pc = "awaiting"
    /\ LET call == adds[c]
           photo == call.photos[call.i]
           enhancedPhoto == Enhanced[photo]
           frequencies == updateLabelFrequencies(labelFrequencies, enhancedPhoto.analysis.labels)
       IN  /\ photos' = Append(photos, photo)
           /\ labelFrequencies' = frequencies
           /\ adds' = [adds EXCEPT ![c] =
                         [call EXCEPT !.pc = AfterPhoto(call),
                                      !.i = call.i + 1,
                                      !.success = Append(call.success, photo),
                                      !.outcomes = Append(call.outcomes, "resolved"),
                                      !.lenAfter = Len(photos) + 1,
                                      !.after = frequencies.individual]]
    /\ UNCHANGED <<sel, prev>>

\* the catch block leaving the loop: the photos after the failed one are
\* not analysed
addPhotos_rejected_abort(c) ==
    /\ adds[c].pc = "awaiting"
    /\ LET call == adds[c]
           photo == call.photos[call.i]
       IN  adds' = [adds EXCEPT ![c] =
                      [call EXCEPT !.pc = "done",
                                   !.i = call.i + 1,
                                   !.failed = Append(call.failed, photo),
                                   !.outcomes = Append(call.outcomes, "rejected"),
                                   !.lenAfter = Len(photos),
                                   !.after = labelFrequencies.individual]]
    /\ UNCHANGED <<photos, labelFrequencies, sel, prev>>

\* analyzePhoto threw (the provider failed, or returned no result): the
\* catch block, then the loop goes on
addPhotos_rejected(c) ==
    /\ adds[c].pc = "awaiting"
    /\ LET call == adds[c]
           photo == call.photos[call.i]
       IN  adds' = [adds EXCEPT ![c] =
                      [call EXCEPT !.pc = AfterPhoto(call),
                                   !.i = call.i + 1,
                                   !.failed = Append(call.failed, photo),
                                   !.outcomes = Append(call.outcomes, "rejected"),
                                   !.lenAfter = Len(photos),
                                   !.after = labelFrequencies.individual]]
    /\ UNCHANGED <<photos, labelFrequencies, sel, prev>>

\* this.photos.map(async photo => ...): every photo scored, in one run
scorePhotos(pool, freq, options) ==
    LET enhanced == [i \in DOMAIN pool |-> Enhanced[pool[i]]]
    IN  [i \in DOMAIN pool |->
            [key |-> pool[i], scores |-> ScorePhoto(enhanced[i], enhanced, freq, options)]]

\* a scoring pass that counts the labels of the first photo it scores
StartPass_counting(options) ==
    /\ sel.pc # "awaiting"
    /\ sel' = [pc |-> "awaiting",
               call |-> << [options |-> options,
                            scoredPhotos |-> scorePhotos(photos, labelFrequencies, options),
                            snapPhotos |-> photos,
                            snapFreq |-> labelFrequencies] >>,
               ret |-> <<>>]
    /\ labelFrequencies' =
          IF photos = <<>> THEN labelFrequencies
          ELSE updateLabelFrequencies(labelFrequencies, Enhanced[photos[1]].analysis.labels)
    /\ UNCHANGED <<photos, adds>>

\* selectHighlights(options) up to its await (lines 388-405)
StartPass(options) ==
    /\ sel.pc # "awaiting"
    /\ sel' = [pc |-> "awaiting",
               call |-> << [options |-> options,
                            scoredPhotos |-> scorePhotos(photos, labelFrequencies, options),
                            snapPhotos |-> photos,
                            snapFreq |-> labelFrequencies] >>,
               ret |-> <<>>]
    /\ UNCHANGED <<photos, labelFrequencies, adds>>

selectHighlights_call(options) ==
    /\ StartPass(options)
    /\ UNCHANGED prev

\* the pool scored again when the pass resumes, not the list it awaited
PassInput_live == scorePhotos(photos, labelFrequencies, sel.call[1].options)

\* the photos the pass groups and selects from: the scoredPhotos it awaited
PassInput == sel.call[1].scoredPhotos

\* what the pass returns, with its locals: groups, and the selection
PassRecord(scoredPhotos, groups, run) ==
    [scoredPhotos |-> scoredPhotos,
     groups |-> groups,
     primary |-> run.primary,
     perBucket |-> run.perBucket,
     usedGroups |-> run.usedGroups,
     backfill |-> run.backfill,
     result |-> run.result,
     livePhotos |-> photos,
     liveFreq |-> labelFrequencies]

\* line 411
SelectFrom(scoredPhotos, groups, options) ==
    PassRecord(scoredPhotos, groups, selectDiverseHighlights(scoredPhotos, groups, options))

\* lines 408-411
GroupAndSelect(scoredPhotos, options) ==
    SelectFrom(scoredPhotos, groupSimilarPhotos(scoredPhotos), options)

\* after the await: lines 408-411 and the return
ReturnPass ==
    /\ sel.pc = "awaiting"
    /\ sel' = [sel EXCEPT !.pc = "done",
                          !.ret = << GroupAndSelect(PassInput, sel.call[1].options) >>]

\* this.photos sorted in place by final score while the pass selects
selectHighlights_resume_sorting ==
    /\ ReturnPass
    /\ LET scored == sel.call[1].scoredPhotos
           sorted == SortDescending([n \in DOMAIN scored |->
                                        [key |-> scored[n].key, k |-> FinalOrZero(scored[n])]])
       IN  photos' = [n \in DOMAIN sorted |-> sorted[n].key]
    /\ UNCHANGED <<labelFrequencies, adds, prev>>

\* a pass that reads the first scored photo before it selects: on an empty
\* pool that read throws and the promise of the pass is rejected
selectHighlights_resume_first ==
    /\ sel.pc = "awaiting"
    /\ IF PassInput = <<>>
          THEN sel' = [sel EXCEPT !.pc = "threw"]
          ELSE ReturnPass
    /\ UNCHANGED <<photos, labelFrequencies, adds, prev>>

selectHighlights_resume ==
    /\ ReturnPass
    /\ UNCHANGED <<photos, labelFrequencies, adds, prev>>

\* the photos a finished pass returned, each with its scores
Returned(ret) == [n \in DOMAIN ret.result |-> ret.scoredPhotos[ret.result[n]]]

\* a second selectHighlights call with the options of the one that just
\* returned; prev keeps what that one returned
selectHighlights_again ==
    /\ sel.pc = "done"
    /\ prev = <<>>
    /\ prev' = << [options |-> sel.call[1].options, returned |-> Returned(sel.ret[1])] >>
    /\ StartPass(sel.call[1].options)

\* the options of the passes that run between the steps of addPhotos calls
AsyncOptions ==
    {o \in Options : o.limit = MaxLimit /\ o.timeRange = Wide /\ o.minQuality = 0}

\* The selector from its construction on, with overlapping addPhotos calls
\* and a selection pass that may run between their steps.
Next ==
    \/ \E c \in Callers, batch \in Batches : addPhotos_call(c, batch)
    \/ \E c \in Callers : addPhotos_resolved(c)
    \/ \E c \in Callers : addPhotos_rejected(c)
    \/ \E o \in AsyncOptions : selectHighlights_call(o)
    \/ selectHighlights_resume

Spec == Init /\ [][Next]_vars

\* the frequency tables addPhotos leaves for a pool
RECURSIVE FrequenciesAfter(_)
FrequenciesAfter(pool) ==
    IF pool = <<>> THEN EmptyFrequencies
    ELSE updateLabelFrequencies(FrequenciesAfter(SubSeq(pool, 1, Len(pool) - 1)),
                                Enhanced[pool[Len(pool)]].analysis.labels)

\* The selection pass as a function of the pool and the options: the pool
\* is any pool addPhotos calls can have left, the pass is run once, and
\* once more with the same options.
InitSelect ==
    /\ photos \in Pools
    /\ labelFrequencies = FrequenciesAfter(photos)
    /\ adds = [c \in Callers |-> IdleAdd]
    /\ sel = IdleSel
    /\ prev = <<>>

NextSelect ==
    \/ \E o \in Options : sel.pc = "idle" /\ selectHighlights_call(o)
    \/ selectHighlights_resume
    \/ selectHighlights_again

SpecSelect == InitSelect /\ [][NextSelect]_vars

\* The pass as a function of the time range: the pool holds up to two of
\* the photos a, b and n, a photo possibly twice, or the three beach shots
\* a, b and c in some order, and the range is any start <= end over instants
\* around them: ranges with a photo at the start, at the midpoint, at the
\* end and outside, of zero length, of a length 10 does not divide, and so
\* long that one bucket holds all three photos.
RangeTimes == {124000, 126000, 128000, 130000, 130001, 130007, 132000, 134000, 6128000}

\* the limits are those of Options and the least one that lets a bucket take
\* two photos
RangeOptions ==
    {[limit |-> l, timeRange |-> r, minQuality |-> 0,
      preferredTypes |-> <<>>, weights |-> NoWeights] :
        l \in (0..MaxLimit) \cup {NumBuckets + 1},
        r \in {t \in [start : RangeTimes, end : RangeTimes] : t.start <= t.end}}

RangePools ==
    LET chain == {k \in Keys : Photos[k].id \in {"a", "b", "c"}}
    IN  SeqsUpTo(Submitted \cup {k \in Keys : Photos[k].id = "b"}, 2)
        \cup {q \in [1..Cardinality(chain) -> chain] : IsInjective(q)}

InitRange ==
    /\ photos \in RangePools
    /\ labelFrequencies = FrequenciesAfter(photos)
    /\ adds = [c \in Callers |-> IdleAdd]
    /\ sel = IdleSel
    /\ prev = <<>>

NextRange ==
    \/ \E o \in RangeOptions : sel.pc = "idle" /\ selectHighlights_call(o)
    \/ selectHighlights_resume

SpecRange == InitRange /\ [][NextRange]_vars

---------------------------------------------------------------------------
(* Properties of the selection pass: what a finished selectHighlights call *)
(* was given and what it returned.                                         *)

PassDone == sel.pc = "done"
PassOptions == sel.call[1].options
PassReturn == sel.ret[1]

\* the analysed photo behind a position of scoredPhotos
AnalysedAt(position) == Enhanced[PassReturn.scoredPhotos[position].key]

\* the quality score of the photo at a position of scoredPhotos
QualityAt(position) == PassReturn.scoredPhotos[position].scores.quality

\* C1: for any pool and any options with an integer limit >= 0, the list
\* selectHighlights returns has at most options.limit elements.
C1_AtMostLimit == PassDone => Len(PassReturn.result) <= PassOptions.limit

\* a pass whose per-bucket fill accepted more than limit photos
C1_FillCutToLimit ==
    /\ PassDone
    /\ PassOptions.limit > 0
    /\ Len(PassReturn.primary) > PassOptions.limit
    /\ Len(PassReturn.result) = PassOptions.limit

\* C2: for every pair of photos accepted by the per-bucket fill of one
\* pass, checkPhotoSimilarity is false, whichever of the two is passed as
\* first argument.
C2_FillPairwiseDissimilar ==
    PassDone =>
        \A i, j \in DOMAIN PassReturn.primary :
            i # j => ~checkPhotoSimilarity(AnalysedAt(PassReturn.primary[i]),
                                           AnalysedAt(PassReturn.primary[j]))

\* C3: selectHighlights called twice with identical options and no
\* addPhotos call in between returns the same photos, with the same scores,
\* in the same order both times.
C3_SameResultAgain ==
    (PassDone /\ prev # <<>> /\ prev[1].options = PassOptions)
        => Returned(PassReturn) = prev[1].returned

\* a second pass that returned two photos, one of them from backfill
C3_SecondPassReturned ==
    /\ PassDone
    /\ prev # <<>>
    /\ Len(PassReturn.result) = 2
    /\ PassReturn.backfill # <<>>

\* C4: every photo selectHighlights returns, accepted in the per-bucket
\* fill or appended by backfill, has a quality score >= options.minQuality.
C4_ReturnedMeetMinQuality ==
    PassDone =>
        \A n \in DOMAIN PassReturn.result :
            FGeq(QualityAt(PassReturn.result[n]), PassOptions.minQuality)

\* positions of different photos that checkPhotoSimilarity judges similar
\* pairwise, in either order
NearDuplicates(set) ==
    /\ Cardinality(set) >= 2
    /\ \A x, y \in set :
          x # y => /\ AnalysedAt(x).id # AnalysedAt(y).id
                   /\ checkPhotoSimilarity(AnalysedAt(x), AnalysedAt(y))

\* C8: when the pool contains a set of near-duplicate photos and more than
\* limit other photos meeting minQuality, the returned list contains at
\* most one photo of that set.
C8_OneOfNearDuplicates ==
    PassDone =>
        \A set \in SUBSET DOMAIN PassReturn.scoredPhotos :
            LET others == {x \in DOMAIN PassReturn.scoredPhotos \ set :
                              FGeq(QualityAt(x), PassOptions.minQuality)}
                returned == {PassReturn.result[n] : n \in DOMAIN PassReturn.result}
            IN  (NearDuplicates(set) /\ Cardinality(others) > PassOptions.limit)
                    => Cardinality(returned \cap set) <= 1

\* C7: in every selection pass groupSimilarPhotos places every photo of the
\* pool in exactly one group.
C7_EveryPhotoInOneGroup ==
    PassDone =>
        LET groups == PassReturn.groups
            places(position) ==
                {place \in (DOMAIN groups) \X (DOMAIN PassReturn.scoredPhotos) :
                    /\ place[2] \in DOMAIN groups[place[1]].photos
                    /\ groups[place[1]].photos[place[2]] = position}
        IN  \A position \in DOMAIN PassReturn.scoredPhotos :
                Cardinality(places(position)) = 1

\* C9: a pass that runs while addPhotos is in flight computes its scores,
\* groups and result from the pool and the frequency tables as they were
\* when it was called; what addPhotos appends or counts later is not seen.
C9_PassSeesItsSnapshot ==
    PassDone =>
        LET call == sel.call[1]
            scored == scorePhotos(call.snapPhotos, call.snapFreq, call.options)
            groups == groupSimilarPhotos(scored)
        IN  /\ PassReturn.scoredPhotos = scored
            /\ PassReturn.groups = groups
            /\ PassReturn.result = selectDiverseHighlights(scored, groups, call.options).result

\* a pass that resumed after addPhotos had appended to the pool and counted
\* labels
C9_PoolGrewDuringPass ==
    /\ PassDone
    /\ PassReturn.livePhotos # sel.call[1].snapPhotos
    /\ PassReturn.liveFreq # sel.call[1].snapFreq
    /\ PassReturn.result # <<>>

---------------------------------------------------------------------------
(* Properties of addPhotos and the label frequency tracker *)

\* the photos of a call's batch whose analysis had the given outcome
WithOutcome(call, outcome) ==
    LET had(n) == call.outcomes[n] = outcome
        positions == SelectSeq([n \in DOMAIN call.outcomes |-> n], had)
    IN  [m \in DOMAIN positions |-> call.photos[positions[m]]]

ListsPartitionBatch(call) ==
    /\ call.success = WithOutcome(call, "resolved")
    /\ call.failed = WithOutcome(call, "rejected")
    /\ call.pc = "done" => Len(call.outcomes) = Len(call.photos)

FailureLeavesState ==
    \A c \in Callers :
        Len(adds'[c].failed) > Len(adds[c].failed)
            => photos' = photos /\ labelFrequencies' = labelFrequencies

\* C5: every photo of a batch ends up in exactly one of success and
\* failed; a photo whose analysis throws is in failed, is not appended to
\* the pool and changes no frequency table, and the photos after it are
\* still processed.
C5_PartialFailure ==
    /\ [](\A c \in Callers : ListsPartitionBatch(adds[c]))
    /\ [][FailureLeavesState]_vars

\* a returned call whose first photo failed and whose second was added
C5_FailedThenAdded ==
    \E c \in Callers :
        /\ adds[c].pc = "done"
        /\ adds[c].outcomes = <<"rejected", "resolved">>
        /\ Len(photos) > adds[c].lenBefore

\* the label descriptions of the model's photos, and the keys of their pairs
Descriptions ==
    UNION {{Enhanced[k].analysis.labels[i].description :
               i \in DOMAIN Enhanced[k].analysis.labels} : k \in Keys}

Combinations == {ComboKey(x, y) : x, y \in Descriptions}

\* how many labels of the photos of a list have description L
Occurrences(L, pool) ==
    Cardinality({at \in (DOMAIN pool) \X (1..Cardinality(Descriptions)) :
                    /\ at[2] \in DOMAIN Enhanced[pool[at[1]]].analysis.labels
                    /\ Enhanced[pool[at[1]]].analysis.labels[at[2]].description = L})

\* how many pairs of label positions of the photos of a list have key K
PairOccurrences(K, pool) ==
    Cardinality({at \in (DOMAIN pool) \X LabelPairs([i \in 1..Cardinality(Descriptions) |-> i]) :
                    LET labels == Enhanced[pool[at[1]]].analysis.labels
                    IN  /\ at[2][2] \in DOMAIN labels
                        /\ ComboKey(labels[at[2][1]].description,
                                    labels[at[2][2]].description) = K})

CountsOf(pool) ==
    [individual |->
        [L \in {d \in Descriptions : Occurrences(d, pool) > 0} |-> Occurrences(L, pool)],
     combinations |->
        [K \in {k \in Combinations : PairOccurrences(k, pool) > 0} |->
            PairOccurrences(K, pool)]]

\* what a call's counts grew by, against the labels of a list of photos
GrewBy(call, pool) ==
    \A L \in Descriptions :
        CountOf(call.after, L) - CountOf(call.before, L) = Occurrences(L, pool)

CountsNeverDecrease ==
    \A L \in DOMAIN labelFrequencies.individual :
        /\ L \in DOMAIN labelFrequencies'.individual
        /\ labelFrequencies'.individual[L] >= labelFrequencies.individual[L]

\* C6, as stated: for every label description L and every addPhotos call,
\* the individual count of L after the call minus its count before the
\* call is the number of occurrences of L among the labels of the photos
\* that call added; and no call ever decreases or resets a count.
C6_CountsGrowByOwnPhotos ==
    /\ [](\A c \in Callers : adds[c].pc = "done" => GrewBy(adds[c], adds[c].success))
    /\ [][CountsNeverDecrease]_vars

\* C6, amended: the count of L after the call minus its count before the
\* call is the number of occurrences of L among the labels of the photos
\* appended to the pool between the call and its return, by that call or
\* by an addPhotos call overlapping it; and no call ever decreases or
\* resets a count.
C6_CountsGrowByAppended ==
    /\ [](\A c \in Callers :
            adds[c].pc = "done" =>
                GrewBy(adds[c], SubSeq(photos, adds[c].lenBefore + 1, adds[c].lenAfter)))
    /\ [][CountsNeverDecrease]_vars

\* a returned call during which an overlapping call appended a photo too
C6_OverlappingCallAppended ==
    \E c \in Callers :
        /\ adds[c].pc = "done"
        /\ adds[c].success # <<>>
        /\ adds[c].lenAfter - adds[c].lenBefore > Len(adds[c].success)

\* C10: in every state another asynchronous operation can observe, the
\* frequency tables are exactly the counts of the labels, and of the label
\* pairs, of the photos in the pool, also when addPhotos calls overlap.
C10_TablesCountThePool == labelFrequencies = CountsOf(photos)

\* an addPhotos call and a selection pass in flight, after another call
\* that overlapped the first has added a photo with two labels and returned
C10_CallsOverlap ==
    /\ sel.pc = "awaiting"
    /\ labelFrequencies.combinations # EmptyMap
    /\ \E c, d \in Callers :
          /\ adds[c].pc = "awaiting"
          /\ adds[c].lenBefore < Len(photos)
          /\ adds[d].pc = "done"
          /\ adds[d].success # <<>>

---------------------------------------------------------------------------
(* Properties of the pass on degenerate inputs *)

\* the pool the pass was called on
PassPool == sel.call[1].snapPhotos

\* C11: selectHighlights called on an empty pool returns an empty list and
\* does not raise, for any options: the pass is suspended or has returned,
\* never rejected, and what it returns is empty.
C11_EmptyPoolEmptyResult ==
    (sel.pc # "idle" /\ PassPool = <<>>) =>
        /\ sel.pc \in {"awaiting", "done"}
        /\ PassDone =>
              /\ PassReturn.result = <<>>
              /\ PassReturn.groups = <<>>

\* a pass on an empty pool with a zero-length time range and limit 0 that
\* has returned
C11_EmptyPoolPassReturned ==
    /\ PassDone
    /\ PassPool = <<>>
    /\ PassOptions.timeRange = Instant
    /\ PassOptions.limit = 0
    /\ PassReturn.result = <<>>

\* the photos the pass scored, with the scores it gave them, and the time
\* range it was given
PassScored == sel.call[1].scoredPhotos
PassRange == sel.call[1].options.timeRange
TakenAt(n) == Enhanced[PassScored[n].key].dateTime

\* C12: with a zero-length time range (start = end) every photo is scored
\* with normalized position 0.5, so its temporal score is 1 and its final
\* score is a well-defined number.
C12_ZeroLengthRangeScoresOne ==
    (sel.pc # "idle" /\ PassRange.start = PassRange.end) =>
        \A n \in DOMAIN PassScored :
            /\ PassScored[n].scores.temporal = One
            /\ IsFinite(PassScored[n].scores.final)

\* a score that is a number between 0 and 1; final is kept in millionths
InUnitInterval(x, one) == IsFinite(x) /\ 0 <= x /\ x <= one

\* C13: each of the six dimension scores and, with the default weights, the
\* final score of every scored photo lies in [0, 1].
C13_ScoresInUnitInterval ==
    sel.pc # "idle" =>
        \A n \in DOMAIN PassScored :
            /\ \A k \in Range(WeightKeys) : InUnitInterval(PassScored[n].scores[k], One)
            /\ InUnitInterval(PassScored[n].scores.final, One * One)

\* both photos are in the first half of the range, or both in the second
SameHalf(n, m) ==
    \/ /\ PassRange.start <= TakenAt(n) /\ 2 * TakenAt(n) <= PassRange.start + PassRange.end
       /\ PassRange.start <= TakenAt(m) /\ 2 * TakenAt(m) <= PassRange.start + PassRange.end
    \/ /\ TakenAt(n) <= PassRange.end /\ 2 * TakenAt(n) >= PassRange.start + PassRange.end
       /\ TakenAt(m) <= PassRange.end /\ 2 * TakenAt(m) >= PassRange.start + PassRange.end

\* of two photos in the same half the one nearer the midpoint scores no less
NearerMidpointScoresMore ==
    \A n, m \in DOMAIN PassScored :
        (/\ SameHalf(n, m)
         /\ Abs(2 * TakenAt(n) - PassRange.start - PassRange.end)
               <= Abs(2 * TakenAt(m) - PassRange.start - PassRange.end))
        => PassScored[n].scores.temporal >= PassScored[m].scores.temporal

ScoreAtMidpointAndEnds(atEnds) ==
    \A n \in DOMAIN PassScored :
        /\ 2 * TakenAt(n) = PassRange.start + PassRange.end
              => PassScored[n].scores.temporal = One
        /\ TakenAt(n) \in {PassRange.start, PassRange.end}
              => PassScored[n].scores.temporal = atEnds

\* C14 as stated: for start < end the temporal score is 1 at the midpoint,
\* decreases monotonically toward either end, and is 0 at start and at end.
C14_ZeroAtEnds ==
    (sel.pc # "idle" /\ PassRange.start < PassRange.end) =>
        /\ ScoreAtMidpointAndEnds(0)
        /\ NearerMidpointScoresMore

\* C14: for start < end the temporal score is 1 at the midpoint, decreases
\* monotonically toward either end, and is 0.5 at start and at end.
C14_HalfAtEnds ==
    (sel.pc # "idle" /\ PassRange.start < PassRange.end) =>
        /\ ScoreAtMidpointAndEnds(One \div 2)
        /\ NearerMidpointScoresMore

\* a pass that scored one photo taken at the start of the range and one taken
\* at its midpoint
C14_PhotoAtStartAndMidpoint ==
    /\ sel.pc # "idle"
    /\ PassRange.start < PassRange.end
    /\ \E n, m \in DOMAIN PassScored :
          /\ TakenAt(n) = PassRange.start
          /\ 2 * TakenAt(m) = PassRange.start + PassRange.end
          /\ PassScored[n].scores.temporal = One \div 2
          /\ PassScored[m].scores.temporal = One

\* the dominant colours of the photo at a position of the pool
ColorsAt(n) == Enhanced[PassPool[n]].analysis.imageProperties.dominantColors

FractionsSumToOne(colors) ==
    SumSeq([i \in DOMAIN colors |-> colors[i].pixelFraction]) = One

\* C15: the colour similarity of a non-empty dominant-colour list whose
\* pixel fractions sum to 1 against itself is 1, whatever the number of
\* colours: two pool entries with the same such list compare as 1.
C15_ColorSelfSimilarityOne ==
    sel.pc # "idle" =>
        \A n, m \in DOMAIN PassPool :
            (/\ n # m
             /\ ColorsAt(n) = ColorsAt(m)
             /\ ColorsAt(n) # <<>>
             /\ FractionsSumToOne(ColorsAt(n)))
            => calculateColorSimilarity(ColorsAt(n), ColorsAt(m)) = One

---------------------------------------------------------------------------
(* Properties of the per-bucket fill and the backfill *)

\* the members of a group the pass accepted, in the fill or in the backfill
AcceptedOf(group) ==
    {n \in DOMAIN PassReturn.primary : PassReturn.primary[n] \in Range(group.photos)}
FilledBackOf(group) ==
    {n \in DOMAIN PassReturn.backfill : PassReturn.backfill[n] \in Range(group.photos)}

\* C16: once the per-bucket fill accepts a photo of a group, the group is
\* marked used and none of its members is a candidate in a later bucket or
\* in the backfill, also when the accepted photo is not the group's anchor:
\* the group's id is in usedGroups and the pass takes nothing more from it.
C16_AcceptedGroupIsUsed ==
    PassDone =>
        \A g \in DOMAIN PassReturn.groups :
            AcceptedOf(PassReturn.groups[g]) # {} =>
                /\ PassReturn.groups[g].id \in PassReturn.usedGroups
                /\ Cardinality(AcceptedOf(PassReturn.groups[g])) = 1
                /\ FilledBackOf(PassReturn.groups[g]) = {}

\* the capture time and the sort key (scores.final || 0) of the photo at a
\* position of scoredPhotos
TimeAt(position) == AnalysedAt(position).dateTime
FinalAt(position) == FinalOrZero(PassReturn.scoredPhotos[position])

\* C17: the result is in selection order and not sorted again: first what
\* the fill accepted, bucket after bucket in chronological order, then what
\* the backfill added, in descending final score; the whole cut to limit.
C17_SelectionOrder ==
    PassDone =>
        /\ PassReturn.primary = FlattenPhotos(PassReturn.perBucket)
        /\ PassReturn.result =
              SliceTo(PassReturn.primary \o PassReturn.backfill, PassOptions.limit)
        /\ \A b1, b2 \in DOMAIN PassReturn.perBucket :
              b1 < b2 =>
                  \A i \in DOMAIN PassReturn.perBucket[b1], j \in DOMAIN PassReturn.perBucket[b2] :
                      TimeAt(PassReturn.perBucket[b1][i]) <= TimeAt(PassReturn.perBucket[b2][j])
        /\ \A i, j \in DOMAIN PassReturn.backfill :
              i < j => FinalAt(PassReturn.backfill[i]) >= FinalAt(PassReturn.backfill[j])

\* a returned list that holds a photo of the fill and after it one of the
\* backfill with a higher final score
C17_FillBeforeBetterBackfill ==
    /\ PassDone
    /\ Len(PassReturn.primary) >= 1
    /\ Len(PassReturn.backfill) >= 1
    /\ PassReturn.result = PassReturn.primary \o PassReturn.backfill
    /\ PassReturn.primary[1] # PassReturn.backfill[1]
    /\ IsFinite(PassReturn.scoredPhotos[PassReturn.primary[1]].scores.final)
    /\ IsFinite(PassReturn.scoredPhotos[PassReturn.backfill[1]].scores.final)
    /\ FinalAt(PassReturn.primary[1]) < FinalAt(PassReturn.backfill[1])

\* the buckets selectDiverseHighlights makes for the range of the pass
PassBuckets == createTimeBuckets(PassRange)

\* C18: for start < end in whole milliseconds createTimeBuckets returns
\* exactly 10 buckets of equal width, each starting where the one before
\* ends, the first starting at start and the last ending at end.
C18_TenEqualBuckets ==
    (sel.pc # "idle" /\ PassRange.start < PassRange.end) =>
        /\ Len(PassBuckets) = NumBuckets
        /\ \A k \in DOMAIN PassBuckets :
              PassBuckets[k].end - PassBuckets[k].start
                  = PassBuckets[1].end - PassBuckets[1].start
        /\ \A k \in DOMAIN PassBuckets :
              k > 1 => PassBuckets[k].start = PassBuckets[k - 1].end
        /\ PassBuckets[1].start = PassRange.start
        /\ PassBuckets[Len(PassBuckets)].end = PassRange.end

\* C19: the per-bucket fill accepts at most ceil(limit / 10) photos in any
\* one bucket.
C19_AtMostTargetPerBucket ==
    PassDone =>
        \A b \in DOMAIN PassReturn.perBucket :
            Len(PassReturn.perBucket[b]) <= Ceil(PassOptions.limit, NumBuckets)

\* a bucket that took its one photo and left a photo of another group, taken
\* inside the same bucket, to the backfill
C19_BucketLeftPhotoToBackfill ==
    /\ PassDone
    /\ PassOptions.limit > 0
    /\ \E b \in DOMAIN PassReturn.perBucket :
          /\ Len(PassReturn.perBucket[b]) = Ceil(PassOptions.limit, NumBuckets)
          /\ \E n \in DOMAIN PassReturn.backfill :
                /\ TimeAt(PassReturn.backfill[n]) >= PassBuckets[b].start
                /\ TimeAt(PassReturn.backfill[n]) <= PassBuckets[b].end
                /\ AnalysedAt(PassReturn.backfill[n]).id
                      # AnalysedAt(PassReturn.perBucket[b][1]).id
                /\ ~Similar[PassReturn.scoredPhotos[PassReturn.backfill[n]].key]
                           [PassReturn.scoredPhotos[PassReturn.perBucket[b][1]].key]

---------------------------------------------------------------------------
(* Properties of the grouping *)

IdAt(position) == AnalysedAt(position).id
KeyAt(position) == PassReturn.scoredPhotos[position].key
AnchorOf(g) == PassReturn.groups[g].photos[1]

\* the ids grouped before group g is made: processedIds when its anchor is
\* reached
GroupedBefore(g) ==
    UNION {{IdAt(PassReturn.groups[h].photos[n]) : n \in DOMAIN PassReturn.groups[h].photos} :
              h \in 1..(g - 1)}

\* the photos group g can still take: those whose id is in no earlier group,
\* is not the anchor's and is not that of a photo before them in the list
\* that the group took
NotYetGrouped(g) ==
    {q \in DOMAIN PassReturn.scoredPhotos :
        /\ IdAt(q) \notin GroupedBefore(g)
        /\ IdAt(q) # IdAt(AnchorOf(g))
        /\ \A r \in 1..(q - 1) : IdAt(r) = IdAt(q) => ~Similar[KeyAt(AnchorOf(g))][KeyAt(r)]}

\* C20: grouping is by anchor and not a transitive closure: each photo not
\* yet grouped becomes in turn the anchor of a new group, which holds the
\* anchor and exactly the photos not yet grouped that are similar to the
\* anchor; a photo similar only to another member is not taken in.
C20_GroupsAreAnchorBased ==
    PassDone =>
        /\ \A g \in DOMAIN PassReturn.groups :
              /\ PassReturn.groups[g].id = IdAt(AnchorOf(g))
              /\ IdAt(AnchorOf(g)) \notin GroupedBefore(g)
              /\ \A q \in 1..(AnchorOf(g) - 1) : IdAt(q) \in GroupedBefore(g)
              /\ Range(PassReturn.groups[g].photos) \ {AnchorOf(g)}
                    = {q \in NotYetGrouped(g) : Similar[KeyAt(AnchorOf(g))][KeyAt(q)]}
        /\ \A q \in DOMAIN PassReturn.scoredPhotos :
              IdAt(q) \in GroupedBefore(Len(PassReturn.groups) + 1)

\* a group that took a photo similar to its anchor and left out a photo
\* similar to that member but not to the anchor, which anchors a later group
C20_SimilarToMemberLeftOut ==
    /\ PassDone
    /\ \E g, h \in DOMAIN PassReturn.groups :
          /\ g < h
          /\ \E n \in DOMAIN PassReturn.groups[g].photos :
                /\ n > 1
                /\ Similar[KeyAt(PassReturn.groups[g].photos[n])][KeyAt(AnchorOf(h))]
                /\ Similar[KeyAt(AnchorOf(h))][KeyAt(PassReturn.groups[g].photos[n])]
                /\ ~Similar[KeyAt(AnchorOf(g))][KeyAt(AnchorOf(h))]

---------------------------------------------------------------------------
(* Properties of what a bucket takes from a group *)

\* the members of the group that holds a position of scoredPhotos
GroupMembersOf(position) ==
    UNION {Range(PassReturn.groups[g].photos) :
              g \in {h \in DOMAIN PassReturn.groups : position \in Range(PassReturn.groups[h].photos)}}

\* the photo at a position is one bucket b can take: taken inside the bucket
\* and of sufficient quality
CandidateIn(position, b) ==
    /\ TimeAt(position) >= PassBuckets[b].start
    /\ TimeAt(position) <= PassBuckets[b].end
    /\ MeetsQuality(PassReturn.scoredPhotos[position], PassOptions.minQuality)

\* C21 as stated: the photo a bucket takes from a group is the member with
\* the highest final score among all members of the group.
C21_BestOfWholeGroup ==
    PassDone =>
        \A b \in DOMAIN PassReturn.perBucket :
            \A n \in DOMAIN PassReturn.perBucket[b] :
                \A other \in GroupMembersOf(PassReturn.perBucket[b][n]) :
                    FinalAt(PassReturn.perBucket[b][n]) >= FinalAt(other)

\* C21: the photo a bucket takes from a group is the member with the highest
\* final score among the members of the group that were taken inside the
\* bucket and meet minQuality.
C21_BestOfGroupInBucket ==
    PassDone =>
        \A b \in DOMAIN PassReturn.perBucket :
            \A n \in DOMAIN PassReturn.perBucket[b] :
                /\ CandidateIn(PassReturn.perBucket[b][n], b)
                /\ \A other \in GroupMembersOf(PassReturn.perBucket[b][n]) :
                      CandidateIn(other, b) =>
                          FinalAt(PassReturn.perBucket[b][n]) >= FinalAt(other)

\* a bucket that took from a group a later member, the better of two members
\* that were both candidates in the bucket
C21_TookBestInsideBucket ==
    /\ PassDone
    /\ \E b \in DOMAIN PassReturn.perBucket :
          \E n \in DOMAIN PassReturn.perBucket[b] :
              \E other \in GroupMembersOf(PassReturn.perBucket[b][n]) :
                  /\ other < PassReturn.perBucket[b][n]
                  /\ CandidateIn(other, b)
                  /\ FinalAt(other) < FinalAt(PassReturn.perBucket[b][n])

---------------------------------------------------------------------------
(* Properties of the analysis addPhotos stores with a photo *)

\* the sub-scores of the composition that are not null, for the response the
\* provider gave for a photo
CompositionParts(k) ==
    evaluateRuleOfThirds(Responses[k])
    \o evaluateSubjectProminence(Responses[k])
    \o evaluateVisualBalance(Responses[k])

\* C22: the composition score of every photo of the pool is the arithmetic
\* mean of the rule-of-thirds, prominence and balance scores that are not
\* null, and 0.5 when all three are null; it is 1 when each of them is 1.
C22_CompositionIsMean ==
    \A n \in DOMAIN photos :
        Enhanced[photos[n]].analysis.quality.compositionScore
            = IF CompositionParts(photos[n]) = <<>> THEN One \div 2
              ELSE SumSeq(CompositionParts(photos[n])) \div Len(CompositionParts(photos[n]))

---------------------------------------------------------------------------
(* Properties of the pair counts *)

\* the pairs of label positions i < j of a photo whose two descriptions are
\* x and y, in either order
PositionPairs(k, x, y) ==
    {at \in (DOMAIN Enhanced[k].analysis.labels) \X (DOMAIN Enhanced[k].analysis.labels) :
        /\ at[1] < at[2]
        /\ {Enhanced[k].analysis.labels[at[1]].description,
            Enhanced[k].analysis.labels[at[2]].description} = {x, y}}

\* the step appends one photo to the pool, and the count kept for each pair
\* of descriptions grows by the number of position pairs of that photo that
\* carry the two descriptions, whichever comes first in its list
PairCountsGrowByOne ==
    Len(photos') = Len(photos) + 1 =>
        \A x, y \in Descriptions :
            CountOf(labelFrequencies'.combinations, ComboKey(x, y))
            - CountOf(labelFrequencies.combinations, ComboKey(x, y))
                = Cardinality(PositionPairs(photos'[Len(photos')], x, y))

\* C23: for each photo added, updateLabelFrequencies increments by exactly
\* one, for every unordered pair of label positions of the photo, the count
\* of that pair, and the count kept for two descriptions does not depend on
\* the order in which they stand in the photo's label list.
C23_PairCountedOnceAnyOrder == [][PairCountsGrowByOne]_vars

\* the pool holds a photo whose two labels stand in the reverse of their
\* sorted order, counted under the sorted key
C23_ReversedPairCounted ==
    /\ \E n \in DOMAIN photos :
          /\ Len(Enhanced[photos[n]].analysis.labels) = 2
          /\ StrLess(Enhanced[photos[n]].analysis.labels[2].description,
                     Enhanced[photos[n]].analysis.labels[1].description)
          /\ CountOf(labelFrequencies.combinations,
                     Enhanced[photos[n]].analysis.labels[2].description \o Bar
                     \o Enhanced[photos[n]].analysis.labels[1].description) >= 1
    /\ \E n \in DOMAIN photos :
          /\ Len(Enhanced[photos[n]].analysis.labels) = 2
          /\ StrLess(Enhanced[photos[n]].analysis.labels[1].description,
                     Enhanced[photos[n]].analysis.labels[2].description)

---------------------------------------------------------------------------
(* Properties of the returned list as a whole *)

\* the photos of the pool the pass was called on have distinct ids
DistinctIds ==
    \A n, m \in DOMAIN PassPool : Photos[PassPool[n]].id = Photos[PassPool[m]].id => n = m

\* C24: for a pool of photos with distinct ids the list selectHighlights
\* returns never holds the same photo (same id) at two positions.
C24_NoPhotoTwice ==
    (PassDone /\ DistinctIds) =>
        \A i, j \in DOMAIN PassReturn.result :
            IdAt(PassReturn.result[i]) = IdAt(PassReturn.result[j]) => i = j

\* C25 as stated: every photo selectHighlights returns was taken inside
\* options.timeRange, start <= dateTime <= end, whether the fill accepted it
\* or the backfill appended it.
C25_ReturnedInsideRange ==
    PassDone =>
        \A i \in DOMAIN PassReturn.result :
            /\ PassOptions.timeRange.start <= TimeAt(PassReturn.result[i])
            /\ TimeAt(PassReturn.result[i]) <= PassOptions.timeRange.end

\* C25: every photo the per-bucket fill accepted was taken inside
\* options.timeRange, start <= dateTime <= end; the photos the backfill
\* appends are not bound to the range.
C25_FillInsideRange ==
    PassDone =>
        \A i \in DOMAIN PassReturn.primary :
            /\ PassOptions.timeRange.start <= TimeAt(PassReturn.primary[i])
            /\ TimeAt(PassReturn.primary[i]) <= PassOptions.timeRange.end

\* a returned list with a photo of the fill, taken inside the range, and
\* after it a photo of the backfill taken outside the range
C25_BackfillOutsideRange ==
    /\ PassDone
    /\ Len(PassReturn.primary) >= 1
    /\ Len(PassReturn.result) > Len(PassReturn.primary)
    /\ PassOptions.timeRange.start <= TimeAt(PassReturn.result[1])
    /\ TimeAt(PassReturn.result[1]) <= PassOptions.timeRange.end
    /\ \/ TimeAt(PassReturn.result[Len(PassReturn.result)]) < PassOptions.timeRange.start
       \/ TimeAt(PassReturn.result[Len(PassReturn.result)]) > PassOptions.timeRange.end

---------------------------------------------------------------------------
(* Properties of the similarity predicate *)

\* C26: checkPhotoSimilarity is symmetric: for every two photos of the pool
\* a pass compares, the predicate gives the same answer in both argument
\* orders, also when several rounded bounding boxes of a photo coincide.
C26_SimilaritySymmetric ==
    sel.pc # "idle" =>
        \A n, m \in DOMAIN PassPool :
            checkPhotoSimilarity(Enhanced[PassPool[n]], Enhanced[PassPool[m]])
                = checkPhotoSimilarity(Enhanced[PassPool[m]], Enhanced[PassPool[n]])

---------------------------------------------------------------------------
(* Properties of the size of the returned list *)

\* the groups of the pass with a member whose quality is a number that is at
\* least minQuality
QualifyingGroups ==
    {g \in DOMAIN PassReturn.groups :
        \E n \in DOMAIN PassReturn.groups[g].photos :
            /\ IsFinite(QualityAt(PassReturn.groups[g].photos[n]))
            /\ QualityAt(PassReturn.groups[g].photos[n]) >= PassOptions.minQuality}

\* C27: for a pool of photos with distinct ids the returned list has at
\* least min(limit, number of groups with a member of quality >= minQuality)
\* entries, so exactly limit when there are at least limit such groups.
C27_AtLeastLimitOrGroups ==
    (PassDone /\ DistinctIds) =>
        /\ Len(PassReturn.result) >= Min2(PassOptions.limit, Cardinality(QualifyingGroups))
        /\ Cardinality(QualifyingGroups) >= PassOptions.limit
              => Len(PassReturn.result) = PassOptions.limit

\* a pass over distinct photos with at least limit qualifying groups whose
\* fill accepted fewer than limit photos and whose backfill made up for it
C27_BackfillReachedLimit ==
    /\ PassDone
    /\ DistinctIds
    /\ PassOptions.limit > 1
    /\ Cardinality(QualifyingGroups) >= PassOptions.limit
    /\ Len(PassReturn.primary) < PassOptions.limit
    /\ Len(PassReturn.result) = PassOptions.limit

---------------------------------------------------------------------------
(* Properties of what a pass leaves behind *)

\* a step of the selection pass changes neither the pool nor the tables
PassStepKeepsState ==
    sel' # sel => (photos' = photos /\ labelFrequencies' = labelFrequencies)

\* C28: selectHighlights leaves the selector's state unchanged: during and
\* after the call the pool holds the photos it held at the call, in the
\* same order and as they were, and both frequency tables are what they
\* were at the call.
C28_PassLeavesStateUnchanged ==
    /\ [](sel.pc # "idle" =>
             /\ photos = PassPool
             /\ labelFrequencies = sel.call[1].snapFreq)
    /\ [][PassStepKeepsState]_vars

\* a pass that scored a pool of several labelled photos and returned some
C28_PassOverCountedPool ==
    /\ PassDone
    /\ Len(PassPool) >= 2
    /\ PassReturn.result # <<>>
    /\ labelFrequencies.combinations # EmptyMap
    /\ photos = PassPool

---------------------------------------------------------------------------
(* Properties of the time buckets as candidates see them *)

\* the buckets whose bounds, both inclusive, hold the capture time of the
\* photo at a position (the test of getEligibleGroupsForBucket, line 716)
BucketsHolding(position) ==
    {b \in DOMAIN PassBuckets :
        /\ TimeAt(position) >= PassBuckets[b].start
        /\ TimeAt(position) <= PassBuckets[b].end}

\* C29: for a timeRange with start < end, every photo taken inside
\* [start, end] is eligible in exactly one time bucket; a capture time on
\* the boundary between two consecutive buckets included.
C29_ExactlyOneBucket ==
    (PassDone /\ PassRange.start < PassRange.end) =>
        \A n \in DOMAIN PassReturn.scoredPhotos :
            (TimeAt(n) >= PassRange.start /\ TimeAt(n) <= PassRange.end) =>
                Cardinality(BucketsHolding(n)) = 1

---------------------------------------------------------------------------
(* Properties of the fill against the final cut *)

\* C30: the per-bucket fill never accepts more than limit photos in total,
\* so the cut to limit discards nothing the fill accepted: every photo the
\* fill accepted, from whichever bucket, is returned.
C30_FillWithinLimit ==
    PassDone =>
        /\ Len(PassReturn.primary) <= PassOptions.limit
        /\ \A n \in DOMAIN PassReturn.primary :
               /\ n \in DOMAIN PassReturn.result
               /\ PassReturn.result[n] = PassReturn.primary[n]

=============================================================================
